---- MODULE Spec2Model ----
(***************************************************************************)
(* Bid lifecycle of the Bid Monitoring Platform (src/app.py).              *)
(*                                                                         *)
(* The store is the three SQLite tables bids, bid_stages and bid_history.  *)
(* Every script run of a user session opens its own connection             *)
(* (src/app.py:19 is re-executed on every run), so what the sessions share *)
(* is the committed content of the tables.  A transaction starts with its  *)
(* first INSERT or UPDATE, which takes the write lock of the database,     *)
(* and ends at the next conn.commit(): its statements become visible all   *)
(* at once, so one action of the model is one transaction, or one read.    *)
(* A script run is a sequence of such actions and the runs of different    *)
(* sessions interleave between them.                                       *)
(***************************************************************************)
EXTENDS Integers, Sequences, FiniteSets, TLC

\* Bounds of the model: the rows the tables may hold.  Spec explores two bids;
\* SpecRace gives one bid more stage and history rows, enough for two runs
\* that write the same bid.
MaxBids == 2
MaxStageRows == 2
MaxHistory == 1
RaceBids == 1
RaceStageRows == 3
RaceHistory == 2

\* SpecDue adds the sidebar of deadline reminders: the days that pass.
MaxDay == 1

\* The user sessions whose script runs interleave.
Sessions == {1, 2}

\* SQL NULL in a DATETIME column (timestamps are >= 0) and in a TEXT column.
NULL == -1
NullText == "NULL"

\* ---------------------------------------------------------------------
\* Configuration constants of the program
\* ---------------------------------------------------------------------

BID_STAGES ==
    ("Proposal Drafting" :> "Proposal Manager") @@
    ("Legal Review" :> "Legal Team") @@
    ("Pricing Review" :> "Finance Team") @@
    ("Submission" :> "Sales Lead") @@
    ("Evaluation" :> "Client") @@
    ("Awarded" :> "Account Manager") @@
    ("Lost" :> "Sales Lead")

\* Mutant: the lookup falls back to its default for every stage.
StageOwner_Unassigned(stage) == "Unassigned"

\* BID_STAGES.get(new_stage, "Unassigned")
StageOwner(stage) ==
    IF stage \in DOMAIN BID_STAGES THEN BID_STAGES[stage] ELSE "Unassigned"

StatusOptions == {"Open", "Submitted", "Won", "Lost"}

LossReasons ==
    {"Pricing too high", "Missed deadline", "Technical requirements", "Other"}

\* st.session_state.user, a tuple (id, username, role); user[1] is the username.
SessionUser == <<"test_id", "admin", "admin">>

\* Values the runs draw their inputs from: the text fields of the forms, the
\* bid value (a number_input with min_value 0), the notes of a transition and
\* the entry picked in the "Reason for Loss" selectbox.
TextInputs == {"", "x"}
BidValues == {0}
TransitionNotes == {"ready"}
ReasonInputs == {"Pricing too high", "Other"}

\* Due dates picked in the date_input of the create form, as day numbers: the
\* first day and a day more than ReminderDays after it.
DueDates == {0, 4}

\* The date_input left at its default, the current day (day 0 where no day
\* passes).
DueToday == {0}

\* timedelta(days=3): the window of the deadline reminders.
ReminderDays == 3

\* The texts of the st.error calls.
MsgRequired == "Please fill required fields (*)"
MsgNotFound == "Bid not found"

\* ---------------------------------------------------------------------
\* State
\* ---------------------------------------------------------------------

VARIABLES
    bids,         \* table bids: row i has id i (AUTOINCREMENT, no deletes)
    bid_stages,   \* table bid_stages, in insertion order
    bid_history,  \* table bid_history, in insertion order
    now,          \* datetime.now(): the next instant the clock returns
    pc,           \* per session: position of its current script run
    local,        \* per session: the local variables of manage_bid_process that
                  \* the rest of the run still reads ("" once it does not)
    msg,          \* per session: st.error message on the page, "" when none
    today,        \* datetime.now().date(), as a day number
    upcoming      \* per session: the rows of the "Bids Due Soon" sidebar

vars == <<bids, bid_stages, bid_history, now, pc, local, msg, today, upcoming>>

store == <<bids, bid_stages, bid_history>>

NoLocals ==
    [bid_id |-> 0, old_status |-> "", new_stage |-> "", new_status |-> "",
     reason |-> ""]

Init ==
    /\ bids = <<>>
    /\ bid_stages = <<>>
    /\ bid_history = <<>>
    /\ now = 0
    /\ pc = [s \in Sessions |-> "idle"]
    /\ local = [s \in Sessions |-> NoLocals]
    /\ msg = [s \in Sessions |-> ""]
    /\ today = 0
    /\ upcoming = [s \in Sessions |-> <<>>]

\* ---------------------------------------------------------------------
\* Helpers: the SQL statements
\* ---------------------------------------------------------------------

\* Mutant: the UPDATE that completes the current stage matches no row.
CompleteCurrentStage_NoClose(rows, id, t) == rows

\* Mutant: the UPDATE lacks "bid_id = ?" and completes the open stage of every bid.
CompleteCurrentStage_AllBids(rows, id, t) ==
    [i \in 1..Len(rows) |->
        IF rows[i].completed_at = NULL
        THEN [rows[i] EXCEPT !.completed_at = t]
        ELSE rows[i]]

\* UPDATE bid_stages SET completed_at = ? WHERE bid_id = ? AND completed_at IS NULL
CompleteCurrentStage(rows, id, t) ==
    [i \in 1..Len(rows) |->
        IF rows[i].bid_id = id /\ rows[i].completed_at = NULL
        THEN [rows[i] EXCEPT !.completed_at = t]
        ELSE rows[i]]

\* Mutant: the new interval is inserted already completed.
StartNewStage_Completed(rows, id, new_stage, notes, t) ==
    Append(rows, [bid_id |-> id, stage |-> new_stage,
                  stage_owner |-> StageOwner(new_stage),
                  started_at |-> t, completed_at |-> t, notes |-> notes])

\* INSERT INTO bid_stages (bid_id, stage, stage_owner, started_at, notes)
\* VALUES (?, ?, BID_STAGES.get(new_stage, "Unassigned"), datetime.now(), ?)
StartNewStage(rows, id, new_stage, notes, t) ==
    Append(rows, [bid_id |-> id, stage |-> new_stage,
                  stage_owner |-> StageOwner(new_stage),
                  started_at |-> t, completed_at |-> NULL, notes |-> notes])

\* update_bid_stage reads the clock twice: t for completed_at, t + 1 for started_at.
update_bid_stage(rows, id, new_stage, notes, t) ==
    StartNewStage(CompleteCurrentStage(rows, id, t), id, new_stage, notes, t + 1)

\* Mutant: the ledger keeps only the latest record.
log_bid_history_Overwrites(rows, id, field_changed, old_value, new_value, t) ==
    <<[bid_id |-> id, changed_at |-> t, changed_by |-> SessionUser[2],
       field_changed |-> field_changed,
       old_value |-> old_value, new_value |-> new_value]>>

\* Mutant: old and new value change places in the INSERT.
log_bid_history_Swapped(rows, id, field_changed, old_value, new_value, t) ==
    Append(rows, [bid_id |-> id, changed_at |-> t, changed_by |-> SessionUser[2],
                  field_changed |-> field_changed,
                  old_value |-> new_value, new_value |-> old_value])

\* INSERT INTO bid_history (...) VALUES (bid_id, datetime.now(), user[1],
\* field_changed, str(old_value), str(new_value)); the values are strings already.
log_bid_history(rows, id, field_changed, old_value, new_value, t) ==
    Append(rows, [bid_id |-> id, changed_at |-> t, changed_by |-> SessionUser[2],
                  field_changed |-> field_changed,
                  old_value |-> old_value, new_value |-> new_value])

\* SELECT * FROM bid_stages WHERE bid_id = ?  (the row numbers)
RowsOf(rows, id) == {i \in 1..Len(rows) : rows[i].bid_id = id}

StageRowsOf(id) == RowsOf(bid_stages, id)

\* ... AND completed_at IS NULL
OpenRows(rows, id) == {i \in RowsOf(rows, id) : rows[i].completed_at = NULL}

OpenRowsOf(id) == OpenRows(bid_stages, id)

\* stages['stage'].values
StageNamesOf(id) == {bid_stages[i].stage : i \in StageRowsOf(id)}

\* [s for s in BID_STAGES.keys() if s not in completed_stages]
AvailableStages(completed_stages) == DOMAIN BID_STAGES \ completed_stages

\* ---------------------------------------------------------------------
\* Actions
\* ---------------------------------------------------------------------

\* Successive calls of datetime.now() return increasing instants: an action
\* that reads the clock n times uses now .. now + n - 1 and leaves now + n.

\* Mutant: the check of the required fields forgets assigned_to.
RequiredMissing_NoAssignee(title, client_name, assigned_to) ==
    title = "" \/ client_name = ""

\* if not title or not client_name or not assigned_to
RequiredMissing(title, client_name, assigned_to) ==
    title = "" \/ client_name = "" \/ assigned_to = ""

\* create_bid: the form is submitted.
CreateBid(s, title, client_name, bid_value, due_date, assigned_to) ==
    /\ pc[s] = "idle"
    /\ IF RequiredMissing(title, client_name, assigned_to)
       THEN /\ msg' = [msg EXCEPT ![s] = MsgRequired]
            /\ UNCHANGED <<bids, bid_stages, now>>
       ELSE /\ bids' = Append(bids,
                   [title |-> title, client_name |-> client_name,
                    bid_value |-> bid_value, assigned_to |-> assigned_to,
                    created_by |-> SessionUser[2], created_at |-> now,
                    status |-> "Open", stage |-> "Proposal Drafting",
                    due_date |-> due_date, reason |-> NullText])
            /\ bid_stages' = update_bid_stage(bid_stages, Len(bids) + 1,
                                              "Proposal Drafting", "Bid created",
                                              now + 1)
            /\ now' = now + 3
            /\ msg' = [msg EXCEPT ![s] = ""]
    /\ UNCHANGED <<bid_history, pc, local, today, upcoming>>

\* Mutant: the lookup misses the bid created last.
BidEmpty_MissesLast(id) == id >= Len(bids)

\* bid = SELECT * FROM bids WHERE id=?; bid.empty
BidEmpty(id) == id > Len(bids)

\* manage_bid_process, lines 365-377: the run reads the bid row.
LoadBid(s, id) ==
    /\ pc[s] = "idle"
    /\ IF BidEmpty(id)
       THEN /\ msg' = [msg EXCEPT ![s] = MsgNotFound]
            /\ UNCHANGED <<pc, local>>
       ELSE /\ msg' = [msg EXCEPT ![s] = ""]
            /\ pc' = [pc EXCEPT ![s] = "loaded"]
            /\ local' = [local EXCEPT ![s] =
                   [NoLocals EXCEPT !.bid_id = id, !.old_status = bids[id].status]]
    /\ UNCHANGED <<bids, bid_stages, bid_history, now, today, upcoming>>

\* Mutant: the reason picked last stays whatever the status.
StatusReason_Kept(new_status, loss_reason) == loss_reason

\* if new_status == "Lost": reason = st.selectbox(...) else: reason = ""
StatusReason(new_status, loss_reason) ==
    IF new_status = "Lost" THEN loss_reason ELSE ""

\* manage_bid_process, lines 387-402: "Update Status" is clicked; the UPDATE of
\* the bid row and the history record are one transaction (commit in line 110).
UpdateStatus(s, new_status, loss_reason) ==
    /\ pc[s] = "loaded"
    /\ LET id == local[s].bid_id
           reason == StatusReason(new_status, loss_reason)
       IN /\ bids' = [bids EXCEPT ![id].status = new_status, ![id].reason = reason]
          /\ bid_history' = log_bid_history(bid_history, id, "status",
                                            local[s].old_status, new_status, now)
          /\ IF new_status \in {"Won", "Lost"}
             THEN /\ pc' = [pc EXCEPT ![s] = "status_logged"]
                  /\ local' = [local EXCEPT ![s].old_status = "",
                                            ![s].new_status = new_status,
                                            ![s].reason = reason]
             ELSE /\ pc' = [pc EXCEPT ![s] = "idle"]
                  /\ local' = [local EXCEPT ![s] = NoLocals]
    /\ now' = now + 1
    /\ UNCHANGED <<bid_stages, msg, today, upcoming>>

\* Mutant: the two branches open each other's stage.
StatusStage_Swapped(new_status) == IF new_status = "Won" THEN "Lost" ELSE "Awarded"

\* Mutant: both branches move the bid to Lost.
StatusStage_AlwaysLost(new_status) == "Lost"

\* if new_status == "Won": ... "Awarded" ... elif new_status == "Lost": ... "Lost"
StatusStage(new_status) == IF new_status = "Won" THEN "Awarded" ELSE "Lost"

StatusNotes(new_status, reason) ==
    IF new_status = "Won" THEN "Bid won!" ELSE "Bid lost: " \o reason

\* manage_bid_process, lines 404-408: the stage that follows the status, a
\* second transaction (commit in line 126), then st.rerun().
UpdateStatusStage(s) ==
    /\ pc[s] = "status_logged"
    /\ bid_stages' = update_bid_stage(bid_stages, local[s].bid_id,
                                      StatusStage(local[s].new_status),
                                      StatusNotes(local[s].new_status, local[s].reason),
                                      now)
    /\ now' = now + 2
    /\ pc' = [pc EXCEPT ![s] = "idle"]
    /\ local' = [local EXCEPT ![s] = NoLocals]
    /\ UNCHANGED <<bids, bid_history, msg, today, upcoming>>

\* Mutant: the stages are offered for Open bids only.
LoadStages_OpenOnly(s) ==
    /\ pc[s] = "loaded"
    /\ bids[local[s].bid_id].status = "Open"
    /\ \E new_stage \in AvailableStages(StageNamesOf(local[s].bid_id)) :
          /\ pc' = [pc EXCEPT ![s] = "stages_read"]
          /\ local' = [local EXCEPT ![s].old_status = "",
                                    ![s].new_stage = new_stage]
    /\ UNCHANGED <<bids, bid_stages, bid_history, now, msg, today, upcoming>>

\* manage_bid_process, lines 411-425 and 433-434: the run reads the bid's stage
\* rows and offers the stages not among them.
LoadStages(s) ==
    /\ pc[s] = "loaded"
    /\ LET completed_stages == StageNamesOf(local[s].bid_id)
           available_stages == AvailableStages(completed_stages)
       IN IF available_stages = {}
          THEN /\ pc' = [pc EXCEPT ![s] = "idle"]
               /\ local' = [local EXCEPT ![s] = NoLocals]
          ELSE \E new_stage \in available_stages :
                  /\ pc' = [pc EXCEPT ![s] = "stages_read"]
                  /\ local' = [local EXCEPT ![s].old_status = "",
                                            ![s].new_stage = new_stage]
    /\ UNCHANGED <<bids, bid_stages, bid_history, now, msg, today, upcoming>>

\* Mutant: the transition also records the stage change in the history.
TransitionStage_Logs(s, notes) ==
    /\ pc[s] = "stages_read"
    /\ bid_stages' = update_bid_stage(bid_stages, local[s].bid_id,
                                      local[s].new_stage, notes, now)
    /\ bid_history' = log_bid_history(bid_history, local[s].bid_id, "stage",
                                      bids[local[s].bid_id].stage,
                                      local[s].new_stage, now + 2)
    /\ now' = now + 3
    /\ pc' = [pc EXCEPT ![s] = "stage_opened"]
    /\ UNCHANGED <<bids, local, msg, today, upcoming>>

\* manage_bid_process, lines 427-428: "Transition Stage" is clicked;
\* update_bid_stage is one transaction (commit in line 126).
TransitionStage(s, notes) ==
    /\ pc[s] = "stages_read"
    /\ bid_stages' = update_bid_stage(bid_stages, local[s].bid_id,
                                      local[s].new_stage, notes, now)
    /\ now' = now + 2
    /\ pc' = [pc EXCEPT ![s] = "stage_opened"]
    /\ UNCHANGED <<bids, bid_history, local, msg, today, upcoming>>

\* manage_bid_process, lines 429-432: the bid row follows in a transaction of
\* its own, then st.rerun().
SetBidStage(s) ==
    /\ pc[s] = "stage_opened"
    /\ bids' = [bids EXCEPT ![local[s].bid_id].stage = local[s].new_stage]
    /\ pc' = [pc EXCEPT ![s] = "idle"]
    /\ local' = [local EXCEPT ![s] = NoLocals]
    /\ UNCHANGED <<bid_stages, bid_history, now, msg, today, upcoming>>

\* WHERE due_date <= ? AND status = 'Open', with today + timedelta(days=3)
DueSoon(row, day) == row.due_date <= day + ReminderDays /\ row.status = "Open"

\* SELECT id, title, due_date FROM bids WHERE ...: the statement has no ORDER
\* BY and the table no index but its rowid, so SQLite scans the table and the
\* rows come in the order of their id.
DeadlineRows(rows, day) ==
    LET ids == SelectSeq([i \in 1..Len(rows) |-> i],
                         LAMBDA i : DueSoon(rows[i], day))
    IN [k \in 1..Len(ids) |->
           [id |-> ids[k], title |-> rows[ids[k]].title,
            due_date |-> rows[ids[k]].due_date]]

\* show_deadline_reminders, called by main at the start of a script run: a read.
ShowDeadlineReminders(s) ==
    /\ pc[s] = "idle"
    /\ upcoming' = [upcoming EXCEPT ![s] = DeadlineRows(bids, today)]
    /\ UNCHANGED <<bids, bid_stages, bid_history, now, pc, local, msg, today>>

\* Midnight: datetime.now().date() moves to the next day.
NextDay ==
    /\ today' = today + 1
    /\ UNCHANGED <<bids, bid_stages, bid_history, now, pc, local, msg, upcoming>>

\* The tables stay within lim = <<bids, stage rows, history rows>>.
Fits(lim) ==
    /\ Len(bids') <= lim[1]
    /\ Len(bid_stages') <= lim[2]
    /\ Len(bid_history') <= lim[3]

\* One step of one session's script run.
\* The create form offers the due dates of dues.
Step(lim, dues) ==
    \/ \E s \in Sessions, title \in TextInputs, client_name \in TextInputs,
          bid_value \in BidValues, due_date \in dues, assigned_to \in TextInputs :
          CreateBid(s, title, client_name, bid_value, due_date, assigned_to)
              /\ Fits(lim)
    \/ \E s \in Sessions, id \in 1..lim[1] : LoadBid(s, id)
    \/ \E s \in Sessions, new_status \in StatusOptions, loss_reason \in ReasonInputs :
          UpdateStatus(s, new_status, loss_reason) /\ Fits(lim)
    \/ \E s \in Sessions : UpdateStatusStage(s) /\ Fits(lim)
    \/ \E s \in Sessions : LoadStages(s)
    \/ \E s \in Sessions, notes \in TransitionNotes : TransitionStage(s, notes) /\ Fits(lim)
    \/ \E s \in Sessions : SetBidStage(s)

\* Spec and SpecRace leave the due date at the default of the date_input, the
\* current day, and do not follow the sidebar.
Next == Step(<<MaxBids, MaxStageRows, MaxHistory>>, DueToday)

Spec == Init /\ [][Next]_vars

NextRace == Step(<<RaceBids, RaceStageRows, RaceHistory>>, DueToday)

SpecRace == Init /\ [][NextRace]_vars

NextDue ==
    \/ Step(<<MaxBids, MaxStageRows, MaxHistory>>, DueDates)
    \/ \E s \in Sessions : ShowDeadlineReminders(s)
    \/ today < MaxDay /\ NextDay

SpecDue == Init /\ [][NextDue]_vars

\* ---------------------------------------------------------------------
\* Properties
\* ---------------------------------------------------------------------

BidIds == 1..Len(bids)

\* A run of session s has committed part of a mutation of bid id and still
\* owes the rest.
MidMutation(s, id) ==
    /\ pc[s] \in {"status_logged", "stage_opened"}
    /\ local[s].bid_id = id

\* The stage name of the bid's open interval, or of its most recently closed
\* one if none is open.
CurrentStageName(id) ==
    IF OpenRowsOf(id) # {}
    THEN bid_stages[CHOOSE i \in OpenRowsOf(id) : TRUE].stage
    ELSE bid_stages[CHOOSE i \in StageRowsOf(id) :
                        \A j \in StageRowsOf(id) :
                            bid_stages[j].completed_at <= bid_stages[i].completed_at].stage

\* C1: every bid has at most one StageInterval whose completed_at is null,
\* in every state the interleaved create, setStatus and transitionStage runs
\* reach.
C1_AtMostOneOpenInterval ==
    \A id \in BidIds : Cardinality(OpenRowsOf(id)) <= 1

\* C1 witness: a bid that has moved on: a closed interval and one open interval.
C1_Witness ==
    \E id \in BidIds :
        /\ Cardinality(StageRowsOf(id)) >= 2
        /\ Cardinality(OpenRowsOf(id)) = 1

\* C2: whenever no run is in the middle of a mutation of the bid, the bid's
\* stage field equals the stage name of its open interval (or of its most
\* recently closed interval if none is open).
C2_StageMatchesInterval ==
    \A id \in BidIds :
        (\A s \in Sessions : ~MidMutation(s, id))
            => bids[id].stage = CurrentStageName(id)

\* C3: no bid has two StageIntervals with the same stage name.
C3_NoStageRevisited ==
    \A id \in BidIds :
        \A i, j \in StageRowsOf(id) :
            i # j => bid_stages[i].stage # bid_stages[j].stage

\* Session s commits the stage rows of a transitionStage in this step.
TransitionWrites(s) == pc[s] = "stages_read" /\ pc'[s] = "stage_opened"

\* C4: a transitionStage whose target is no key of the Stage Registry, or is
\* already the stage name of an interval of the bid, writes nothing: every
\* transition that writes targets a registry stage the bid has not visited.
C4_TransitionRejectsUsedStage ==
    [][\A s \in Sessions :
          TransitionWrites(s) =>
              /\ local[s].new_stage \in DOMAIN BID_STAGES
              /\ local[s].new_stage \notin StageNamesOf(local[s].bid_id)]_vars

\* C5: of two transitionStage calls that run at the same time on one bid with
\* different target stages at most one writes; never have both written.
C5_OneConcurrentTransition ==
    \A s1, s2 \in Sessions :
        ( /\ s1 # s2
          /\ pc[s1] = "stage_opened"
          /\ pc[s2] = "stage_opened"
          /\ local[s1].bid_id = local[s2].bid_id )
            => local[s1].new_stage = local[s2].new_stage

\* C6: no state a concurrent reader can see is a partly applied mutation:
\* every bid row has an interval and an open one, Bid.stage is the stage of
\* the open interval, and a status Won or Lost comes with its Awarded or Lost
\* interval.
C6_NoPartialMutation ==
    \A id \in BidIds :
        /\ StageRowsOf(id) # {}
        /\ OpenRowsOf(id) # {}
        /\ bids[id].stage = CurrentStageName(id)
        /\ bids[id].status = "Won" => "Awarded" \in StageNamesOf(id)
        /\ bids[id].status = "Lost" => "Lost" \in StageNamesOf(id)

\* Session s commits the status and the history record of a setStatus in this step.
StatusWrites(s) ==
    /\ pc[s] = "loaded"
    /\ pc'[s] \in {"idle", "status_logged"}
    /\ bid_history' # bid_history

\* Session s commits the stage rows that follow a status Won or Lost in this step.
StatusStageWrites(s) == pc[s] = "status_logged" /\ pc'[s] = "idle"

\* C7: setStatus to Won or Lost is followed, in the same run, by the closing of
\* the bid's open interval and the opening of an interval Awarded (notes
\* "Bid won!") or Lost (notes "Bid lost: " + reason); setStatus to Open or
\* Submitted ends the run and leaves the intervals as they are.
C7_StatusDrivesStage ==
    [][\A s \in Sessions :
          /\ StatusWrites(s) =>
                LET id == local[s].bid_id
                    new == bids'[id].status
                IN /\ bid_stages' = bid_stages
                   /\ new \in {"Won", "Lost"} <=> pc'[s] = "status_logged"
                   /\ pc'[s] = "status_logged" =>
                         /\ local'[s].bid_id = id
                         /\ local'[s].new_status = new
                         /\ local'[s].reason = bids'[id].reason
          /\ StatusStageWrites(s) =>
                LET id == local[s].bid_id
                    n == Len(bid_stages)
                    won == local[s].new_status = "Won"
                IN /\ Len(bid_stages') = n + 1
                   /\ bid_stages'[n + 1].bid_id = id
                   /\ bid_stages'[n + 1].stage = IF won THEN "Awarded" ELSE "Lost"
                   /\ bid_stages'[n + 1].stage_owner =
                         IF won THEN "Account Manager" ELSE "Sales Lead"
                   /\ bid_stages'[n + 1].notes =
                         IF won THEN "Bid won!" ELSE "Bid lost: " \o local[s].reason
                   /\ OpenRows(bid_stages', id) = {n + 1}
                   /\ \A i \in 1..n :
                         IF i \in OpenRows(bid_stages, id)
                         THEN /\ bid_stages'[i].completed_at # NULL
                              /\ bid_stages'[i] =
                                    [bid_stages[i] EXCEPT
                                        !.completed_at = bid_stages'[i].completed_at]
                         ELSE bid_stages'[i] = bid_stages[i]]_vars

\* C7 witness: a bid set to Won whose Proposal Drafting interval is closed and
\* whose Awarded interval is open.
C7_Witness ==
    \E id \in BidIds : \E i, j \in StageRowsOf(id) :
        /\ bids[id].status = "Won"
        /\ i < j
        /\ bid_stages[i].stage = "Proposal Drafting"
        /\ bid_stages[i].completed_at # NULL
        /\ bid_stages[j].stage = "Awarded"
        /\ bid_stages[j].notes = "Bid won!"
        /\ bid_stages[j].completed_at = NULL

\* C8: a setStatus run reads the bid's status when it begins; its write sets
\* the status and the reason of that bid only and appends exactly one
\* HistoryRecord: field "status", old value the status read, new value the
\* status written, changed by the session's user.
C8_StatusLogged ==
    [][\A s \in Sessions :
          /\ (pc[s] = "idle" /\ pc'[s] = "loaded") =>
                local'[s].old_status = bids[local'[s].bid_id].status
          /\ StatusWrites(s) =>
                LET id == local[s].bid_id
                    n == Len(bid_history)
                    rec == bid_history'[n + 1]
                IN /\ Len(bid_history') = n + 1
                   /\ SubSeq(bid_history', 1, n) = bid_history
                   /\ rec.bid_id = id
                   /\ rec.field_changed = "status"
                   /\ rec.old_value = local[s].old_status
                   /\ rec.new_value = bids'[id].status
                   /\ rec.changed_by = "admin"
                   /\ bids'[id].status \in StatusOptions
                   /\ IF bids'[id].status = "Lost"
                      THEN bids'[id].reason \in LossReasons
                      ELSE bids'[id].reason = ""
                   /\ bids' = [bids EXCEPT ![id].status = bids'[id].status,
                                           ![id].reason = bids'[id].reason]]_vars

\* C8 witness: a status set to the value it had: the record's old and new
\* value are the same.
C8_Witness ==
    \E k \in 1..Len(bid_history) :
        /\ bid_history[k].old_value = bid_history[k].new_value
        /\ bids[bid_history[k].bid_id].status = bid_history[k].new_value
        /\ bids[bid_history[k].bid_id].reason = ""

\* C9: a create appends one bid with the next id, status Open and stage
\* Proposal Drafting, and one interval for it, open, stage Proposal
\* Drafting, owner Proposal Manager, notes "Bid created"; the earlier bids,
\* the intervals of the other bids and the history stay as they are.
C9_CreateOpensFirstStage ==
    [][Len(bids') # Len(bids) =>
          LET n == Len(bids)
              m == Len(bid_stages)
          IN /\ Len(bids') = n + 1
             /\ SubSeq(bids', 1, n) = bids
             /\ bids'[n + 1].status = "Open"
             /\ bids'[n + 1].stage = "Proposal Drafting"
             /\ RowsOf(bid_stages, n + 1) = {}
             /\ Len(bid_stages') = m + 1
             /\ SubSeq(bid_stages', 1, m) = bid_stages
             /\ bid_stages'[m + 1].bid_id = n + 1
             /\ bid_stages'[m + 1].stage = "Proposal Drafting"
             /\ bid_stages'[m + 1].stage_owner = "Proposal Manager"
             /\ bid_stages'[m + 1].notes = "Bid created"
             /\ bid_stages'[m + 1].completed_at = NULL
             /\ bid_history' = bid_history]_vars

\* C9 witness: a second bid was created beside a first one whose interval is
\* still open; each has its one interval.
C9_Witness ==
    /\ Len(bids) = 2
    /\ \A id \in BidIds :
          /\ Cardinality(StageRowsOf(id)) = 1
          /\ OpenRowsOf(id) = StageRowsOf(id)

\* C10: a create with an empty title, client name or assigned-to shows the
\* error and writes nothing; no stored bid has an empty required field or a
\* negative bid value.
C10_InvalidCreateWritesNothing ==
    [][/\ \A id \in 1..Len(bids') :
             /\ bids'[id].title # ""
             /\ bids'[id].client_name # ""
             /\ bids'[id].assigned_to # ""
             /\ bids'[id].bid_value >= 0
       /\ \A s \in Sessions :
             (msg'[s] = MsgRequired /\ msg[s] # MsgRequired) =>
                 UNCHANGED <<bids, bid_stages, bid_history>>]_vars

\* C10 witness: the error of the create form is on a session's page while the
\* store holds a bid.
C10_Witness ==
    \E s \in Sessions : msg[s] = MsgRequired /\ Len(bids) >= 1

\* C11: a run for a bid id that does not exist shows "Bid not found", ends
\* there and writes nothing, whatever status would have been asked for; a run
\* that goes on holds the id of an existing bid, and an existing bid is found.
C11_MissingBidWritesNothing ==
    [][\A s \in Sessions :
          /\ (msg'[s] = MsgNotFound /\ msg[s] # MsgNotFound) =>
                /\ UNCHANGED <<bids, bid_stages, bid_history>>
                /\ pc[s] = "idle"
                /\ pc'[s] = "idle"
          /\ pc'[s] # "idle" => local'[s].bid_id \in 1..Len(bids')
          /\ pc[s] = "idle" =>
                \A id \in BidIds : ENABLED (LoadBid(s, id) /\ pc'[s] = "loaded")]_vars

\* C11 witness: "Bid not found" is on a session's page while the store holds
\* another bid, with its one interval and no history.
C11_Witness ==
    \E s \in Sessions :
        /\ msg[s] = MsgNotFound
        /\ Len(bids) = 1
        /\ Len(bid_stages) = 1
        /\ bid_history = <<>>

\* The rows of bid_history that belong to bid id.
RecordsOf(id) == {k \in 1..Len(bid_history) : bid_history[k].bid_id = id}

C13_OnlyStatusIsLogged ==
    [][/\ \A k \in 1..Len(bid_history') : bid_history'[k].field_changed = "status"
       /\ \A id \in 1..Len(bids') :
             (\A k \in 1..Len(bid_history') : bid_history'[k].bid_id # id)
                 <=> bids'[id].reason = NullText
       /\ Len(bids') # Len(bids) => bid_history' = bid_history
       /\ bid_stages' # bid_stages => bid_history' = bid_history
       /\ (\E id \in BidIds : bids'[id].stage # bids[id].stage) =>
             bid_history' = bid_history
       /\ bid_history' # bid_history =>
             \E s \in Sessions :
                 /\ pc[s] = "loaded"
                 /\ pc'[s] \in {"idle", "status_logged"}
                 /\ Len(bid_history') = Len(bid_history) + 1
                 /\ bid_history'[Len(bid_history')].bid_id = local[s].bid_id]_vars

\* C13 witness: a bid that was created and moved to another stage by hand,
\* with an empty history.
C13_Witness ==
    /\ bid_history = <<>>
    /\ \E id \in BidIds :
          /\ bids[id].stage # "Proposal Drafting"
          /\ Cardinality(StageRowsOf(id)) = 2

\* Session s renders its "Bids Due Soon" sidebar in this step.
RemindersShown(s) == upcoming'[s] # upcoming[s]

\* The rows of the sidebar are the Open bids due on or before the day
\* ReminderDays from today, each once, with its title and due date.
RemindersExact(s) ==
    LET shown == upcoming'[s]
    IN /\ {shown[k].id : k \in 1..Len(shown)} =
              {id \in BidIds :
                  bids[id].status = "Open" /\ bids[id].due_date <= today + ReminderDays}
       /\ Len(shown) = Cardinality({shown[k].id : k \in 1..Len(shown)})
       /\ \A k \in 1..Len(shown) :
             /\ shown[k].title = bids[shown[k].id].title
             /\ shown[k].due_date = bids[shown[k].id].due_date

\* C14: the reminders list exactly the Open bids with due_date <= today + 3
\* (Submitted, Won and Lost bids never, overdue Open bids always), in
\* ascending order of due_date, and the step changes nothing stored.
C14_DueSoonSortedByDueDate ==
    [][\A s \in Sessions :
          RemindersShown(s) =>
              /\ RemindersExact(s)
              /\ \A j, k \in 1..Len(upcoming'[s]) :
                    j < k => upcoming'[s][j].due_date <= upcoming'[s][k].due_date
              /\ UNCHANGED <<bids, bid_stages, bid_history>>]_vars

\* C15: a bid whose status is not Lost has an empty reason (NULL from its
\* creation on, "" once a setStatus has written it); a reason is stored only
\* with status Lost, so a setStatus away from Lost has cleared it.
C15_ReasonOnlyWhenLost ==
    \A id \in BidIds :
        IF bids[id].status = "Lost"
        THEN bids[id].reason \in LossReasons
        ELSE bids[id].reason \in {"", NullText}

\* C15 witness: a bid that was Lost and has been set to another status since;
\* its reason is "" again.
C15_Witness ==
    \E id \in BidIds : \E k \in RecordsOf(id) :
        /\ bid_history[k].new_value = "Lost"
        /\ bids[id].status # "Lost"
        /\ bids[id].reason = ""

\* C16: a new interval's owner is the Stage Registry's owner of its stage
\* ("Unassigned" for a name outside the registry); no step changes the bid,
\* stage name, owner, started_at or notes of an existing interval or removes
\* one; completed_at changes only from null to a timestamp, hence at most once.
C16_IntervalsImmutable ==
    [][/\ Len(bid_stages') >= Len(bid_stages)
       /\ \A i \in 1..Len(bid_stages) :
             /\ bid_stages'[i] =
                   [bid_stages[i] EXCEPT !.completed_at = bid_stages'[i].completed_at]
             /\ bid_stages'[i].completed_at # bid_stages[i].completed_at =>
                   /\ bid_stages[i].completed_at = NULL
                   /\ bid_stages'[i].completed_at >= 0
       /\ \A i \in (Len(bid_stages) + 1)..Len(bid_stages') :
             bid_stages'[i].stage_owner =
                 IF bid_stages'[i].stage \in DOMAIN BID_STAGES
                 THEN BID_STAGES[bid_stages'[i].stage]
                 ELSE "Unassigned"]_vars

\* C16 witness: an interval that was completed while a later interval of
\* another stage, with that stage's owner, was opened after it.
C16_Witness ==
    \E i, j \in 1..Len(bid_stages) :
        /\ i < j
        /\ bid_stages[i].bid_id = bid_stages[j].bid_id
        /\ bid_stages[i].completed_at # NULL
        /\ bid_stages[i].stage_owner = "Proposal Manager"
        /\ bid_stages[j].stage = "Legal Review"
        /\ bid_stages[j].stage_owner = "Legal Team"

\* Session s commits the stage field of the bid after a transitionStage in
\* this step.
StageFieldWrites(s) == pc[s] = "stage_opened" /\ pc'[s] = "idle"

\* C17: whatever the bid's status, a run that has loaded the bid can pick
\* every registry stage the bid has not visited and then commit the
\* transition; the transition's two writes leave the status and the reason of
\* every bid and the history as they are.
C17_TransitionIgnoresStatus ==
    [][\A s \in Sessions :
          /\ pc[s] = "loaded" =>
                \A stage \in DOMAIN BID_STAGES \ StageNamesOf(local[s].bid_id) :
                    ENABLED (LoadStages(s) /\ local'[s].new_stage = stage)
          /\ pc[s] = "stages_read" =>
                ENABLED (\E notes \in TransitionNotes : TransitionStage(s, notes))
          /\ TransitionWrites(s) =>
                /\ bids' = bids
                /\ bid_history' = bid_history
                /\ bid_stages'[Len(bid_stages')].stage = local[s].new_stage
          /\ StageFieldWrites(s) =>
                /\ bids' = [bids EXCEPT ![local[s].bid_id].stage = local[s].new_stage]
                /\ bid_history' = bid_history]_vars

\* C17 witness: a bid that was set to Submitted and moved to another stage
\* afterwards; it is still Submitted, with its one history record.
C17_Witness ==
    \E id \in BidIds : \E k \in RecordsOf(id) : \E i \in StageRowsOf(id) :
        /\ bids[id].status = "Submitted"
        /\ bids[id].reason = ""
        /\ bid_history[k].new_value = "Submitted"
        /\ bid_stages[i].started_at > bid_history[k].changed_at
        /\ bid_stages[i].notes \in TransitionNotes
        /\ bids[id].stage = bid_stages[i].stage

\* The stages the spec calls terminal.
TerminalStages == {"Awarded", "Lost"}

\* C18: while the bid's open interval is no terminal stage a run can pick
\* every registry stage the bid has not visited; once the open interval is
\* Awarded or Lost no transitionStage writes for the bid any more.
C18_TerminalStagesAreFinal ==
    [][\A s \in Sessions :
          /\ ( /\ pc[s] = "loaded"
               /\ CurrentStageName(local[s].bid_id) \notin TerminalStages ) =>
                \A stage \in DOMAIN BID_STAGES \ StageNamesOf(local[s].bid_id) :
                    ENABLED (LoadStages(s) /\ local'[s].new_stage = stage)
          /\ TransitionWrites(s) =>
                CurrentStageName(local[s].bid_id) \notin TerminalStages]_vars

\* C19: the history records of a bid, in append order, form a chain: the
\* first has old value Open, every later one has as old value the new value
\* of the record before it, and the last has as new value the bid's status;
\* also when several sessions that loaded the bid write its status.
C19_StatusChainUnbroken ==
    \A id \in BidIds : \A k \in RecordsOf(id) :
        LET earlier == {j \in RecordsOf(id) : j < k}
            later == {j \in RecordsOf(id) : j > k}
            prev == CHOOSE j \in earlier : \A i \in earlier : i <= j
        IN /\ bid_history[k].old_value =
                 IF earlier = {} THEN "Open" ELSE bid_history[prev].new_value
           /\ later = {} => bid_history[k].new_value = bids[id].status

\* C20: every bid in the store has exactly one open interval, and that
\* interval started after every other interval of the bid.
C20_ExactlyOneOpenAndLatest ==
    \A id \in BidIds :
        /\ Cardinality(OpenRowsOf(id)) = 1
        /\ \A i \in OpenRowsOf(id) : \A j \in StageRowsOf(id) \ {i} :
              bid_stages[j].started_at < bid_stages[i].started_at

\* C20 witness: a bid whose first interval was completed before its open
\* interval started.
C20_Witness ==
    \E id \in BidIds : \E i, j \in StageRowsOf(id) :
        /\ OpenRowsOf(id) = {i}
        /\ bid_stages[j].completed_at # NULL
        /\ bid_stages[j].started_at < bid_stages[j].completed_at
        /\ bid_stages[j].completed_at < bid_stages[i].started_at

\* A run of session s has committed a status Won or Lost of bid id and has
\* not yet committed the interval that follows it.
StatusStagePending(s, id) == pc[s] = "status_logged" /\ local[s].bid_id = id

\* C21: once the runs that set a bid's status have completed, a bid with
\* status Won has an interval Awarded and a bid with status Lost has an
\* interval Lost among its intervals, open or completed.
C21_StatusHasItsInterval ==
    \A id \in BidIds :
        (\A s \in Sessions : ~StatusStagePending(s, id)) =>
            /\ bids[id].status = "Won" => "Awarded" \in StageNamesOf(id)
            /\ bids[id].status = "Lost" => "Lost" \in StageNamesOf(id)

\* C21 witness: no run is under way and a bid is Lost, with its reason, its
\* history record and its open interval Lost.
C21_Witness ==
    /\ \A s \in Sessions : pc[s] = "idle"
    /\ \E id \in BidIds : \E k \in RecordsOf(id) : \E i \in OpenRowsOf(id) :
          /\ bids[id].status = "Lost"
          /\ bids[id].reason \in LossReasons
          /\ bid_history[k].new_value = "Lost"
          /\ bid_stages[i].stage = "Lost"
          /\ bid_stages[i].started_at > bid_history[k].changed_at

====
